---- MODULE Spec2Model ----
(***************************************************************************)
(* A model of reckoning/telisaran.py: the Telisaran calendar hierarchy     *)
(* (Minute, Hour, Day, Span, Season, FestivalOfTheHunt, Year, Era) and the *)
(* two conversions of datetime, as_seconds and from_seconds.               *)
(*                                                                         *)
(* Python integers are unbounded and an Era is 315360000000 seconds long,  *)
(* beyond the integers of the model checker.  A number of seconds is       *)
(* therefore kept as two limbs, [d |-> whole days, s |-> seconds of the    *)
(* day], with value d * Day_length_in_seconds + s; the lengths of Season,  *)
(* Festival, Year and Era, all whole days, are kept in days.               *)
(***************************************************************************)
EXTENDS Integers, Naturals, Sequences, FiniteSets, TLC

VARIABLES
    op,        \* the call last made
    src,       \* the arguments of the constructor call
    tin,       \* the argument of datetime.from_seconds
    dt,        \* the datetime made, or the exception raised
    out,       \* the value of as_seconds
    prev,      \* the argument and result of the earlier from_seconds call
    obj,       \* the Era, Year, Season, Day, Hour or Minute made, or the exception
    season,    \* the Season whose days property the threads read
    pc,        \* each thread's line in Season.days
    idx,       \* each thread's loop variable i
    ret,       \* the list each thread got back
    running,   \* the thread that ran last
    switches   \* preemptions so far

vars == <<op, src, tin, dt, out, prev, obj, season, pc, idx, ret, running, switches>>

(***************************************************************************)
(* Bounds of the inputs the model draws.                                   *)
(***************************************************************************)
MaxEraArg == 5
MaxYearArg == 1
MaxSeasonArg == 10
MaxDayArg == 1
MaxHourArg == 1
MaxMinuteArg == 1
MaxSecondArg == 1
MaxEraIdx == 4
MaxYearIdx == 1
MaxSod == 1
MaxDelta == 1
NumThreads == 2
MaxSwitches == 2

(***************************************************************************)
(* Class attributes.                                                       *)
(***************************************************************************)
Minute_length_in_seconds == 60
Hour_length_in_seconds == 60 * Minute_length_in_seconds
Day_length_in_seconds == 24 * Hour_length_in_seconds
Day_names == <<"Syfdag", "Mimdag", "Wodag", "Thordag", "Freydag">>
Span_length_in_days == Len(Day_names)
Season_names == <<"Fox", "Owl", "Wolf", "Eagle", "Shark", "Lion", "Raven", "Bear">>
Season_length_in_spans == 9
Season_length_in_days == Season_length_in_spans * Span_length_in_days
Festival_length_in_spans == 1
Festival_length_in_days == 5
Year_length_in_seasons == Len(Season_names)
Year_length_in_spans == (Year_length_in_seasons * Season_length_in_spans) + 1
Year_length_in_days == Year_length_in_spans * Span_length_in_days
Era_long_names == <<"Ancient Era", "Old Era", "Modern Era">>
Era_short_names == <<"AE", "OE", "ME">>
Era_length_in_years == 10000
Era_length_in_days == Era_length_in_years * Year_length_in_days

(***************************************************************************)
(* Two-limb arithmetic on numbers of seconds.                              *)
(***************************************************************************)
W(d, s) == [d |-> d + (s \div Day_length_in_seconds), s |-> s % Day_length_in_seconds]

WDays(n) == W(n, 0)

WAdd(a, b) == W(a.d + b.d, a.s + b.s)

WSub(a, b) == W(a.d - b.d, a.s - b.s)

WLess(a, b) == a.d < b.d \/ (a.d = b.d /\ a.s < b.s)

\* int(a / L) for a >= 0 and a length L of lenDays whole days
WDivDays(a, lenDays) == a.d \div lenDays

\* int(a / len) for a >= 0 and a length len of seconds that divides a day
WDivSecs(a, len) == a.d * (Day_length_in_seconds \div len) + (a.s \div len)

\* the plain integer of a number of seconds below one day
WInt(a) == a.d * Day_length_in_seconds + a.s

(***************************************************************************)
(* Results: a constructed object carries ok = TRUE, a raised exception     *)
(* ok = FALSE and the exception's class.                                   *)
(***************************************************************************)
Raise(e) == [ok |-> FALSE, err |-> e]

None == [nil |-> TRUE]

NoEnd == 0

(***************************************************************************)
(* Constructors.  A back-reference (Day.season, Season.year, Year.era) is  *)
(* kept as the number of the object referred to, 0 for None.               *)
(***************************************************************************)
Minute_init(minute) ==
    IF minute < 0 \/ minute > 59
    THEN Raise("InvalidHourError")
    ELSE [ok |-> TRUE, cls |-> "Minute", minute |-> minute]

Hour_init(hour) ==
    IF hour < 0 \/ hour > 23
    THEN Raise("InvalidHourError")
    ELSE [ok |-> TRUE, cls |-> "Hour", hour |-> hour]

SeasonRef(s) == IF s = None THEN 0 ELSE s.season_of_year

Day_init(day_of_season, s) ==
    IF day_of_season < 1 \/ day_of_season > Season_length_in_days
    THEN Raise("InvalidDayError")
    ELSE [ok |-> TRUE, cls |-> "Day", day_of_season |-> day_of_season, season |-> SeasonRef(s)]

FestivalOfTheHunt_init(year) ==
    [ok |-> TRUE, cls |-> "FestivalOfTheHunt", season_of_year |-> 9, year |-> year, _days |-> <<>>]

\* __init__ returning the Festival makes the call raise TypeError
Season_init(season_of_year, year) ==
    IF season_of_year = Len(Season_names) + 1
    THEN Raise("TypeError")
    ELSE IF season_of_year < 1 \/ season_of_year > Len(Season_names)
    THEN Raise("InvalidSeasonError")
    ELSE [ok |-> TRUE, cls |-> "Season", season_of_year |-> season_of_year, year |-> year,
          _days |-> <<>>]

\* the class attribute length_in_days as an instance sees it
Season_self_length_in_days(s) ==
    IF s.cls = "FestivalOfTheHunt" THEN Festival_length_in_days ELSE Season_length_in_days

Era_init(era, end) ==
    IF era < 1 \/ era > Len(Era_long_names) + 1
    THEN Raise("InvalidEraError")
    ELSE [ok |-> TRUE, cls |-> "Era", era |-> era, end |-> end]

\* Era.long and Era.short index the name tables with era - 1
Era_long(e) ==
    IF e.era - 1 < Len(Era_long_names)
    THEN [ok |-> TRUE, name |-> Era_long_names[e.era]]
    ELSE Raise("IndexError")

Era_short(e) ==
    IF e.era - 1 < Len(Era_short_names)
    THEN [ok |-> TRUE, name |-> Era_short_names[e.era]]
    ELSE Raise("IndexError")

eras == <<Era_init(1, 20000), Era_init(2, 10000), Era_init(3, NoEnd)>>

\* the message of the era-end error reads self.era.name, which Era lacks
Year_init(year, era) ==
    IF year < 1
    THEN Raise("InvalidYearError")
    ELSE IF era.end # NoEnd /\ year > era.end
    THEN Raise("AttributeError")
    ELSE [ok |-> TRUE, cls |-> "Year", year |-> year, era |-> era.era,
          seasons |-> [i \in 1..(Year_length_in_seasons + 1) |->
                          IF i <= Year_length_in_seasons
                          THEN Season_init(i, year)
                          ELSE FestivalOfTheHunt_init(year)]]

\* the days property: fills the cache when it is empty, returns the cache
Season_days(s) ==
    IF s._days = <<>>
    THEN [s EXCEPT !._days = [i \in 1..Season_length_in_days |-> Day_init(i, s)]]
    ELSE s

\* datetime.__init__ without its Festival branch: season 9 goes to Season(9, year)
datetime_init_no_festival(era, year, season_, day, hour, minute, second) ==
    LET e == Era_init(era, NoEnd)
        y == Year_init(year, e)
        s == Season_init(season_, year)
        d == Day_init(day, s)
        h == Hour_init(hour)
        m == Minute_init(hour)
    IN  IF ~e.ok THEN e
        ELSE IF ~y.ok THEN y
        ELSE IF ~s.ok THEN s
        ELSE IF ~d.ok THEN d
        ELSE IF ~h.ok THEN h
        ELSE IF ~m.ok THEN m
        ELSE IF second < 0 \/ second > 59 THEN Raise("InvalidDateError")
        ELSE [ok |-> TRUE, cls |-> "datetime", era |-> e, year |-> y, season |-> s,
              day |-> d, hour |-> h, minute |-> m, second |-> second]

datetime_init(era, year, season_, day, hour, minute, second) ==
    LET e == Era_init(era, NoEnd)
        y == Year_init(year, e)
        s == IF season_ = Year_length_in_seasons + 1
             THEN FestivalOfTheHunt_init(year)
             ELSE Season_init(season_, year)
        d == Day_init(day, s)
        h == Hour_init(hour)
        m == Minute_init(hour)
    IN  IF ~e.ok THEN e
        ELSE IF ~y.ok THEN y
        ELSE IF ~s.ok THEN s
        ELSE IF ~d.ok THEN d
        ELSE IF ~h.ok THEN h
        ELSE IF ~m.ok THEN m
        ELSE IF second < 0 \/ second > 59 THEN Raise("InvalidDateError")
        ELSE [ok |-> TRUE, cls |-> "datetime", era |-> e, year |-> y, season |-> s,
              day |-> d, hour |-> h, minute |-> m, second |-> second]

\* the seven numbers of a datetime
Fields(d) ==
    <<d.era.era, d.year.year, d.season.season_of_year, d.day.day_of_season,
      d.hour.hour, d.minute.minute, d.second>>

(***************************************************************************)
(* Conversions.                                                            *)
(***************************************************************************)
\* DateObject.as_seconds of an object whose length is lenDays whole days
DateObject_as_seconds(number, lenDays) == WDays((number - 1) * lenDays)

Minute_as_seconds(m) == W(0, m.minute * Minute_length_in_seconds)

Hour_as_seconds(h) == W(0, h.hour * Hour_length_in_seconds)

Season_int(s) == WDays((s.season_of_year - 1) * Season_self_length_in_days(s))

datetime_as_seconds(d) ==
    WAdd(WAdd(DateObject_as_seconds(d.era.era, Era_length_in_days),
              DateObject_as_seconds(d.year.year, Year_length_in_days)),
         WAdd(Season_int(d.season),
              DateObject_as_seconds(d.day.day_of_season, 1)))

from_seconds(seconds) ==
    LET era == WDivDays(seconds, Era_length_in_days)
        e_sec == WDays(era * Era_length_in_days)
        r1 == WSub(seconds, e_sec)
        year == WDivDays(r1, Year_length_in_days)
        y_sec == WDays(year * Year_length_in_days)
        r2 == WSub(r1, y_sec)
        season_ == WDivDays(r2, Season_length_in_days)
        s_sec == WDays(season_ * Season_length_in_days)
        r3 == WSub(r2, s_sec)
        day == WDivSecs(r3, Day_length_in_seconds)
        d_sec == WDays(day)
        r4 == WSub(r3, d_sec)
        hour == WDivSecs(r4, Hour_length_in_seconds)
        h_sec == W(0, hour * Hour_length_in_seconds)
        r5 == WSub(r4, h_sec)
        minute == WDivSecs(r5, Minute_length_in_seconds)
        m_sec == W(0, minute * Minute_length_in_seconds)
        r6 == WSub(r5, m_sec)
    IN  datetime_init(era + 1, year + 1, season_ + 1, day + 1, hour, minute, WInt(r6))

(***************************************************************************)
(* Inputs.                                                                 *)
(***************************************************************************)
EraArgs == 0..MaxEraArg

EndArgs == {NoEnd, eras[2].end, eras[1].end}

YearArgs == (0..MaxYearArg) \cup {Era_length_in_years, Era_length_in_years + 1}

BoundedYearArgs == YearArgs \cup {eras[1].end, eras[1].end + 1}

SeasonArgs == 0..MaxSeasonArg

DayArgs ==
    (0..MaxDayArg) \cup {Festival_length_in_days, Festival_length_in_days + 1,
                         Season_length_in_days, Season_length_in_days + 1}

HourArgs == (-1..MaxHourArg) \cup {23, 24}

MinuteArgs == (0..MaxMinuteArg) \cup {60}

SecondArgs == (-1..MaxSecondArg) \cup {59, 60}

\* offsets: era index, year index, day of the year, second of the day
EraIdxs == 0..MaxEraIdx

YearIdxs == (0..MaxYearIdx) \cup {Era_length_in_years - 1}

Doys == 0..(Year_length_in_days - 1)

Sods ==
    (0..MaxSod) \cup {Minute_length_in_seconds - 1, Minute_length_in_seconds,
                      Hour_length_in_seconds - 1, Hour_length_in_seconds,
                      Day_length_in_seconds - 1}

Deltas == (1..MaxDelta) \cup {Minute_length_in_seconds}

Threads == 1..NumThreads

Idle == [t \in Threads |-> "idle"]

NoIdx == [t \in Threads |-> 0]

NoRet == [t \in Threads |-> <<>>]

Args(era, year, season_, day, hour, minute, second) ==
    [era |-> era, year |-> year, season |-> season_, day |-> day,
     hour |-> hour, minute |-> minute, second |-> second]

(***************************************************************************)
(* The calls of a sequential caller: one constructor call or one           *)
(* from_seconds call on fresh inputs, then the calls that follow on its    *)
(* result.                                                                 *)
(***************************************************************************)
Init ==
    /\ op = "init"
    /\ src = None
    /\ tin = None
    /\ dt = None
    /\ out = None
    /\ prev = None
    /\ obj = None
    /\ season = None
    /\ pc = Idle
    /\ idx = NoIdx
    /\ ret = NoRet
    /\ running = 1
    /\ switches = 0

\* datetime(era, year, season, day, hour, minute, second)
Construct ==
    /\ op = "init"
    /\ \E era \in EraArgs, year \in YearArgs, season_ \in SeasonArgs, day \in DayArgs,
       hour \in HourArgs, minute \in MinuteArgs, second \in SecondArgs :
        /\ op' = "datetime"
        /\ src' = Args(era, year, season_, day, hour, minute, second)
        /\ dt' = datetime_init(era, year, season_, day, hour, minute, second)
        /\ tin' = None
        /\ out' = None
        /\ prev' = None
        /\ obj' = None
        /\ UNCHANGED <<season, pc, idx, ret, running, switches>>

\* datetime.from_seconds(t)
FromSeconds ==
    /\ op = "init"
    /\ \E e \in EraIdxs, y \in YearIdxs, doy \in Doys, sod \in Sods :
        LET t == W(e * Era_length_in_days + y * Year_length_in_days + doy, sod)
        IN  /\ op' = "from_seconds"
            /\ tin' = t
            /\ dt' = from_seconds(t)
            /\ src' = None
            /\ out' = None
            /\ prev' = None
            /\ obj' = None
            /\ UNCHANGED <<season, pc, idx, ret, running, switches>>

\* a second call datetime.from_seconds(t + delta) after from_seconds(t)
FromSecondsLater ==
    /\ op = "from_seconds"
    /\ \E delta \in Deltas :
        /\ op' = "from_seconds_later"
        /\ prev' = [t |-> tin, dt |-> dt]
        /\ tin' = WAdd(tin, W(0, delta))
        /\ dt' = from_seconds(tin')
        /\ UNCHANGED <<src, out, obj, season, pc, idx, ret, running, switches>>

\* d.as_seconds of the datetime d last made
AsSeconds ==
    /\ op \in {"datetime", "from_seconds"}
    /\ dt.ok
    /\ op' = "as_seconds"
    /\ out' = datetime_as_seconds(dt)
    /\ UNCHANGED <<src, tin, dt, prev, obj, season, pc, idx, ret, running, switches>>

\* datetime.from_seconds(d.as_seconds) of a constructed datetime d
RoundTrip ==
    /\ op = "as_seconds"
    /\ src # None
    /\ op' = "round_trip"
    /\ dt' = from_seconds(out)
    /\ UNCHANGED <<src, tin, out, prev, obj, season, pc, idx, ret, running, switches>>

\* a constructor call with arguments a and result r
Call(o, a, r) ==
    /\ op' = o
    /\ src' = a
    /\ obj' = r
    /\ tin' = None
    /\ dt' = None
    /\ out' = None
    /\ prev' = None
    /\ UNCHANGED <<season, pc, idx, ret, running, switches>>

NewEra ==
    /\ op = "init"
    /\ \E era \in EraArgs, end \in EndArgs :
        Call("Era", [era |-> era, end |-> end], Era_init(era, end))

NewYear ==
    /\ op = "init"
    /\ \E year \in BoundedYearArgs, era \in 1..Len(eras) :
        Call("Year", [year |-> year, era |-> era], Year_init(year, eras[era]))

NewSeason ==
    /\ op = "init"
    /\ \E season_of_year \in SeasonArgs, year \in 1..MaxYearArg :
        Call("Season", [season_of_year |-> season_of_year, year |-> year],
              Season_init(season_of_year, year))

NewFestival ==
    /\ op = "init"
    /\ \E year \in 1..MaxYearArg :
        Call("FestivalOfTheHunt", [year |-> year], FestivalOfTheHunt_init(year))

\* Day(day_of_season, season=s), s a Regular Season, the Festival or None
NewDay ==
    /\ op = "init"
    /\ \E day_of_season \in DayArgs,
       s \in {Season_init(n, 1) : n \in 1..Year_length_in_seasons}
             \cup {FestivalOfTheHunt_init(1), None} :
        Call("Day", [day_of_season |-> day_of_season, season |-> s],
              Day_init(day_of_season, s))

NewHour ==
    /\ op = "init"
    /\ \E hour \in HourArgs : Call("Hour", [hour |-> hour], Hour_init(hour))

NewMinute ==
    /\ op = "init"
    /\ \E minute \in MinuteArgs : Call("Minute", [minute |-> minute], Minute_init(minute))

\* year.seasons[k].days of the Year last made
ReadYearDays ==
    /\ op \in {"Year", "Year_days"}
    /\ obj.ok
    /\ \E k \in 1..(Year_length_in_seasons + 1) :
        /\ op' = "Year_days"
        /\ obj' = [obj EXCEPT !.seasons[k] = Season_days(obj.seasons[k])]
        /\ UNCHANGED <<src, tin, dt, out, prev, season, pc, idx, ret, running, switches>>

\* s.days of the Season or Festival last made
ReadSeasonDays ==
    /\ op \in {"Season", "FestivalOfTheHunt"}
    /\ obj.ok
    /\ op' = "Season_days"
    /\ obj' = Season_days(obj)
    /\ UNCHANGED <<src, tin, dt, out, prev, season, pc, idx, ret, running, switches>>

Next ==
    \/ Construct
    \/ FromSeconds
    \/ FromSecondsLater
    \/ AsSeconds
    \/ RoundTrip
    \/ NewEra
    \/ NewYear
    \/ NewSeason
    \/ NewFestival
    \/ NewDay
    \/ NewHour
    \/ NewMinute
    \/ ReadYearDays
    \/ ReadSeasonDays

Spec == Init /\ [][Next]_vars

(***************************************************************************)
(* Threads reading the days property of one shared Season.  A thread runs  *)
(* line by line; the scheduler preempts a running thread at most           *)
(* MaxSwitches times.                                                      *)
(***************************************************************************)
SharedSeasons ==
    {Season_init(n, 1) : n \in 1..Year_length_in_seasons} \cup {FestivalOfTheHunt_init(1)}

InitDays ==
    /\ op = "days"
    /\ src = None
    /\ tin = None
    /\ dt = None
    /\ out = None
    /\ prev = None
    /\ obj = None
    /\ season \in SharedSeasons
    /\ pc = [t \in Threads |-> "call"]
    /\ idx = NoIdx
    /\ ret = NoRet
    /\ running = 1
    /\ switches = 0

Sched(t) ==
    /\ t = running \/ pc[running] = "done" \/ switches < MaxSwitches
    /\ running' = t
    /\ switches' = IF t # running /\ pc[running] # "done" THEN switches + 1 ELSE switches
    /\ UNCHANGED <<op, src, tin, dt, out, prev, obj>>

\* if not self._days:
DaysCheck(t) ==
    /\ pc[t] = "call"
    /\ Sched(t)
    /\ IF season._days = <<>>
       THEN pc' = [pc EXCEPT ![t] = "loop"] /\ idx' = [idx EXCEPT ![t] = 1]
       ELSE pc' = [pc EXCEPT ![t] = "return"] /\ idx' = idx
    /\ UNCHANGED <<season, ret>>

\* one turn of the loop: self._days.append(Day(i, season=self))
DaysAppend(t) ==
    /\ pc[t] = "loop"
    /\ Sched(t)
    /\ season' = [season EXCEPT !._days = Append(@, Day_init(idx[t], season))]
    /\ IF idx[t] < Season_length_in_days
       THEN pc' = pc /\ idx' = [idx EXCEPT ![t] = @ + 1]
       ELSE pc' = [pc EXCEPT ![t] = "return"] /\ idx' = [idx EXCEPT ![t] = 0]
    /\ UNCHANGED ret

\* return self._days: the caller sees the list as it is now
DaysReturn(t) ==
    /\ pc[t] = "return"
    /\ Sched(t)
    /\ ret' = [ret EXCEPT ![t] = season._days]
    /\ pc' = [pc EXCEPT ![t] = "done"]
    /\ UNCHANGED <<season, idx>>

\* the caller reads the property again
DaysAgain(t) ==
    /\ pc[t] = "done"
    /\ Sched(t)
    /\ pc' = [pc EXCEPT ![t] = "call"]
    /\ UNCHANGED <<season, idx, ret>>

NextDays ==
    \E t \in Threads :
        \/ DaysCheck(t)
        \/ DaysAppend(t)
        \/ DaysReturn(t)
        \/ DaysAgain(t)

SpecDays == InitDays /\ [][NextDays]_vars

(***************************************************************************)
(* Properties.                                                             *)
(***************************************************************************)
\* 3 * Era.length_in_seconds
ThreeEras == WDays(3 * Era_length_in_days)

SrcFields ==
    <<src.era, src.year, src.season, src.day, src.hour, src.minute, src.second>>

\* lexicographic order on tuples of seven numbers
LexLeq(a, b) ==
    \E k \in 1..8 :
        /\ \A i \in 1..(k - 1) : a[i] = b[i]
        /\ k = 8 \/ a[k] < b[k]

\* the year as the sequence of the lengths in days of its nine seasons
YearSeasonDays ==
    [n \in 1..9 |-> IF n <= 8 THEN 45 ELSE 5]

\* days of the year before season n
RECURSIVE SeasonStart(_)
SeasonStart(n) == IF n = 1 THEN 0 ELSE SeasonStart(n - 1) + YearSeasonDays[n - 1]

\* the season whose range of days holds day r of the year
SeasonLookup(r) ==
    CHOOSE n \in 1..9 : SeasonStart(n) <= r /\ r < SeasonStart(n) + YearSeasonDays[n]

\* C1: for 0 <= t < 3 * Era.length_in_seconds, datetime.from_seconds(t).as_seconds
\* equals t.
C1_ComposeDecompose ==
    (op = "as_seconds" /\ tin # None /\ WLess(tin, ThreeEras)) => out = tin

\* C2: for every date d the constructor accepts, datetime.from_seconds(d.as_seconds)
\* succeeds and has the seven numbers d was constructed from.
C2_DecomposeCompose ==
    op = "round_trip" => (dt.ok /\ Fields(dt) = SrcFields)

\* C3: for t1 < t2 below 3 * Era.length_in_seconds, the seven numbers of
\* from_seconds(t1) are lexicographically at most those of from_seconds(t2).
C3_Monotone ==
    (op = "from_seconds_later" /\ WLess(tin, ThreeEras) /\ prev.dt.ok /\ dt.ok)
        => LexLeq(Fields(prev.dt), Fields(dt))

\* C4: as_seconds is the sum of the seven offsets: (era-1) eras, (year-1) years, the
\* seasons before this one (8 Regular Seasons for the Festival), (day-1) days,
\* hour hours, minute minutes and second.
C4_SumOfOffsets ==
    op = "as_seconds" =>
        out = W((dt.era.era - 1) * Era_length_in_days
                  + (dt.year.year - 1) * Year_length_in_days
                  + SeasonStart(dt.season.season_of_year)
                  + (dt.day.day_of_season - 1),
                dt.hour.hour * 3600 + dt.minute.minute * 60 + dt.second)

\* C5: for 0 <= t < 3 * Era.length_in_seconds, from_seconds(t) succeeds; with r the
\* offset within the year, the season is the one of the nine (8 of 45 days, then 1 of
\* 5 days) whose range holds r, a Festival exactly when it is the 9th, and the day is
\* the count of whole days from the season's start plus one, within the season's
\* length; offset 0 is (1,1,1,1,0,0,0) and offset 86400 is day 2.
C5_SeasonLookup ==
    (op \in {"from_seconds", "from_seconds_later"} /\ WLess(tin, ThreeEras)) =>
        /\ dt.ok
        /\ LET r == tin.d % 365
               n == SeasonLookup(r)
           IN  /\ dt.season.season_of_year = n
               /\ (dt.season.cls = "FestivalOfTheHunt") <=> (n = 9)
               /\ dt.day.day_of_season = (r - SeasonStart(n)) + 1
               /\ dt.day.day_of_season \in 1..YearSeasonDays[n]
               /\ r = 8 * 45 => (n = 9 /\ dt.day.day_of_season = 1)
        /\ tin = W(0, 0) => Fields(dt) = <<1, 1, 1, 1, 0, 0, 0>>
        /\ tin = W(0, 86400) => Fields(dt) = <<1, 1, 1, 2, 0, 0, 0>>

\* a decomposition below three eras that lands on the last day of a Festival
C5_Witness ==
    /\ op = "from_seconds"
    /\ WLess(tin, ThreeEras)
    /\ dt.ok
    /\ dt.era.era = 3
    /\ dt.season.cls = "FestivalOfTheHunt"
    /\ dt.day.day_of_season = 5

\* C6: Day(n, season=s) succeeds exactly when 1 <= n <= the length in days of s (45
\* for a Regular Season, 5 for the Festival), and a datetime is accepted only with
\* such a day.
C6_DayBounds ==
    /\ (op = "Day" /\ src.season # None) =>
           (obj.ok <=> (1 <= src.day_of_season
                        /\ src.day_of_season <= YearSeasonDays[src.season.season_of_year]))
    /\ (op = "datetime" /\ dt.ok) =>
           (1 <= src.day /\ src.day <= YearSeasonDays[dt.season.season_of_year])

\* C7: a constructed Year has 9 seasons, the first 8 Regular Seasons numbered 1..8 in
\* order, the 9th a Festival numbered 9 whose days list has exactly 5 Days.
C7_FestivalPlacement ==
    (op \in {"Year", "Year_days"} /\ obj.ok) =>
        /\ Len(obj.seasons) = 9
        /\ \A i \in 1..8 : obj.seasons[i].cls = "Season" /\ obj.seasons[i].season_of_year = i
        /\ obj.seasons[9].cls = "FestivalOfTheHunt"
        /\ obj.seasons[9].season_of_year = 9
        /\ obj.seasons[9]._days # <<>> => Len(obj.seasons[9]._days) = 5

\* C8: Season(9, year) yields a Festival numbered 9, Season(n, year) for n in 1..8 a
\* Regular Season numbered n, and any other n fails with the season range error.
C8_SeasonRedirect ==
    op = "Season" =>
        LET n == src.season_of_year
        IN  /\ n = 9 => (obj.ok /\ obj.cls = "FestivalOfTheHunt" /\ obj.season_of_year = 9)
            /\ n \in 1..8 => (obj.ok /\ obj.cls = "Season" /\ obj.season_of_year = n)
            /\ (n < 1 \/ n > 9) => (~obj.ok /\ obj.err = "InvalidSeasonError")

\* C9: every constructed Era, and the era of every constructed datetime, has a number
\* in 1..3, one with an entry in the era name tables.
C9_EraOrdinal ==
    /\ (op = "Era" /\ obj.ok) =>
           (obj.era \in 1..3 /\ Era_long(obj).ok /\ Era_short(obj).ok)
    /\ (dt # None /\ dt.ok) =>
           (dt.era.era \in 1..3 /\ Era_long(dt.era).ok /\ Era_short(dt.era).ok)

\* the Days of season s, one per ordinal 1..length_in_days in ascending order
DaysOf(s) == [i \in 1..YearSeasonDays[s.season_of_year] |-> Day_init(i, s)]

\* C10: whatever the interleaving of the threads reading the days of one Season, every
\* caller obtains, and the cache finally holds, exactly one Day per ordinal
\* 1..length_in_days in ascending order.
C10_DaysSafe ==
    /\ \A t \in Threads : pc[t] = "done" => ret[t] = DaysOf(season)
    /\ (\A t \in Threads : pc[t] = "done") => season._days = DaysOf(season)

====
